---- MODULE Spec2Model ----
(***************************************************************************)
(* Model of the matchmaking / session-orchestration server of Talk         *)
(* (signaling-server/index.js) and of the browser client that drives it    *)
(* (App.tsx, ReadyRoom, Campfire).                                         *)
(*                                                                         *)
(* Encoding.  A connection identifier (socket.id) is a number 1..MaxSockets.*)
(* A room identifier `room_${Date.now()}` is represented by the clock value *)
(* it is built from (the template is injective, so two identifiers are     *)
(* equal exactly when the two clock values are); the two name spaces are   *)
(* kept apart (joined[s] holds room identifiers only, a socket's own room  *)
(* is implicit).  null is Null.  The clock counts milliseconds.            *)
(*                                                                         *)
(* Variables marked "observer" record what happened; no handler reads them.*)
(***************************************************************************)
EXTENDS Integers, Sequences, FiniteSets, TLC

\* ------------------------------------------------------------------ bounds
MaxSockets == 3      \* connections that ever exist
MaxTicks == 1        \* one-millisecond advances of the clock
MaxFlagged == 2      \* accusations recorded in the room table at one time
MaxEvents == 6       \* client events (join, ready, flag, leave, disconnect) handled
MaxBurstEvents == 7  \* the same, when the clock stands still
MaxRelayEvents == 4  \* the same, next to the signal relay
MaxClientEvents == 6 \* the same, when the events come from the browser client

\* --------------------------------------------------------- program constants
ROOM_SIZE == 2
sessionDuration == 15 * 60 * 1000
T0 == 1              \* Date.now() when the server starts (any positive value)

Null == 0
Unknown == 0         \* a flag target / signal recipient that is no connection
Sockets == 1..MaxSockets

VARIABLES
    now,            \* Date.now()
    conn,           \* conn[s] : "new" | "connected" | "disconnected"
    currentRoomID,  \* the closure variable of each connection (line 17)
    joined,         \* socket.io adapter: room identifiers s has joined
    rooms,          \* the room table, in property insertion order
    timers,         \* pending setTimeout callbacks, in arming order
    out,            \* observer: events emitted by the last step, in order
    ticks,          \* observer: clock ticks used (bound)
    events,         \* observer: client events handled (bound)
    client,         \* the React state of each connection's browser tab
    build           \* the Campfire component the deployed client is built from

vars == <<now, conn, currentRoomID, joined, rooms, timers, out, ticks, events,
          client, build>>

\* the browser side; the server's handlers neither read nor write it
ui == <<client, build>>

\* ------------------------------------------------------------------ helpers
EmptyMap == [k \in {} |-> FALSE]

MapSet(f, k, v) == [x \in (DOMAIN f) \cup {k} |-> IF x = k THEN v ELSE f[x]]

MapDel(f, k) == [x \in (DOMAIN f) \ {k} |-> f[x]]

RemoveAt(seq, i) == SubSeq(seq, 1, i - 1) \o SubSeq(seq, i + 1, Len(seq))

Without(seq, s) == LET Keep(x) == x # s IN SelectSeq(seq, Keep)

Range(seq) == {seq[i] : i \in DOMAIN seq}

Min(S) == CHOOSE m \in S : \A n \in S : m <= n

\* rooms[id] is defined
HasRoom(rs, id) == \E i \in DOMAIN rs : rs[i].id = id

RoomIdx(rs, id) == CHOOSE i \in DOMAIN rs : rs[i].id = id

RoomIds(rs) == {rs[i].id : i \in DOMAIN rs}

\* ReadyCount that counts the keys, true or not
ReadyCount_Keys(r) == Cardinality(DOMAIN r.readyStates)

\* Object.values(readyStates).filter(r => r).length
ReadyCount(r) == Cardinality({k \in DOMAIN r.readyStates : r.readyStates[k]})

\* the connections io.to(id) reaches
Members(jn, id) == {s \in Sockets : id \in jn[s]}

\* { participants: [], readyStates: {}, flags: {} }; starts is an observer
NewRoom(id) ==
    [id |-> id, participants |-> <<>>, readyStates |-> EmptyMap,
     flags |-> EmptyMap, starts |-> 0]

\* no callback.  kind, at, owner are a callback; the rest observes it: the room
\* it was armed for, when, the connections in that room's audience then,
\* whether one of them has left the room since, and whether the room has
\* been deleted by the departure of its last participant
NoTimer ==
    [kind |-> "none", at |-> 0, owner |-> Null, room |-> Null, t0 |-> 0,
     audience |-> {}, left |-> FALSE, dead |-> FALSE]

\* an emitted event: io.to(room).emit(ev, ...) reaches the connections in to;
\* addr is "socket" when the name is a connection identifier; src, by and tm
\* (the handler that emitted, its connection, its callback) are observers
Emit(ev, room, to) ==
    [ev |-> ev, addr |-> "room", room |-> room, to |-> to, participants |-> 0,
     readyCount |-> 0, roomID |-> Null, peers |-> <<>>, peerId |-> Null,
     duration |-> 0, remaining |-> 0, from |-> Null, signal |-> "",
     src |-> "", by |-> Null, tm |-> NoTimer]

\* observer: the events of one handler run, marked with the handler
Tag(evs, src, by, tm) ==
    [i \in DOMAIN evs |-> [evs[i] EXCEPT !.src = src, !.by = by, !.tm = tm]]

RoomUpdate(r, to) ==
    [Emit("room-update", r.id, to) EXCEPT
        !.participants = Len(r.participants), !.readyCount = ReadyCount(r)]

ParticipantRemoved(r, to, peer) ==
    [Emit("participant-removed", r.id, to) EXCEPT
        !.peerId = peer, !.peers = r.participants]

\* ------------------------------------------------------------------- state
ServerInit ==
    /\ now = T0
    /\ conn = [s \in Sockets |-> "new"]
    /\ currentRoomID = [s \in Sockets |-> Null]
    /\ joined = [s \in Sockets |-> {}]
    /\ rooms = <<>>
    /\ timers = <<>>
    /\ out = <<>>
    /\ ticks = 0
    /\ events = 0

\* the Campfire components of the repository: components/Campfire.tsx, which
\* App.tsx imports, and the two other copies of the component
Builds == {"Campfire.tsx", "part_001", "part_002"}

\* App.tsx line 13 (view), ReadyRoom line 11 (isReady), Campfire lines 20 and
\* 35 (currentPeers, flagged); a component that is not mounted has no state
Mounted == [view |-> "lobby", isReady |-> FALSE, currentPeers |-> <<>>, flagged |-> {}]

Init ==
    /\ ServerInit
    /\ client = [s \in Sockets |-> Mounted]
    /\ build = "Campfire.tsx"

\* io.on("connection")
Connect(s) ==
    /\ conn[s] = "new"
    /\ conn' = [conn EXCEPT ![s] = "connected"]
    /\ currentRoomID' = [currentRoomID EXCEPT ![s] = Null]
    /\ out' = <<>>
    /\ UNCHANGED <<now, joined, rooms, timers, ticks, events>>

\* --------------------------------------------------------------- leaveRoom
\* the room table after leaveRoom's lines 23-29, for target room t
LeaveRooms(rs, s, t) ==
    IF ~HasRoom(rs, t) THEN rs
    ELSE LET i == RoomIdx(rs, t)
             r == [rs[i] EXCEPT !.participants = Without(@, s),
                                !.readyStates = MapDel(@, s)]
         IN  IF Len(r.participants) = 0 THEN RemoveAt(rs, i)
             ELSE [rs EXCEPT ![i] = r]

\* the events of leaveRoom's lines 30-41
LeaveEmits(rs, jn, s, t) ==
    IF HasRoom(rs, t) /\ HasRoom(LeaveRooms(rs, s, t), t)
    THEN LET r == LeaveRooms(rs, s, t)[RoomIdx(LeaveRooms(rs, s, t), t)]
         IN  <<RoomUpdate(r, Members(jn, t)),
               ParticipantRemoved(r, Members(jn, t), s)>>
    ELSE <<>>

\* observer: what a departure of s from room t means for the pending timers
LeaveTimers(tms, rs, s, t) ==
    [i \in DOMAIN tms |->
        [tms[i] EXCEPT
            !.left = @ \/ (tms[i].room = t /\ s \in tms[i].audience),
            !.dead = @ \/ (/\ tms[i].room = t
                           /\ HasRoom(rs, t)
                           /\ rs[RoomIdx(rs, t)].starts > 0
                           /\ ~HasRoom(LeaveRooms(rs, s, t), t))]]

\* LeaveRoom without line 44: currentRoomID keeps the room
LeaveRoom_KeepID(s) ==
    /\ conn[s] = "connected"
    /\ LET t == currentRoomID[s] IN
        IF t = Null
        THEN /\ out' = <<>>
             /\ UNCHANGED <<rooms, joined, currentRoomID, timers>>
        ELSE /\ rooms' = LeaveRooms(rooms, s, t)
             /\ out' = Tag(LeaveEmits(rooms, joined, s, t), "leave-room", s, NoTimer)
             /\ joined' = [joined EXCEPT ![s] = @ \ {t}]
             /\ UNCHANGED currentRoomID
             /\ timers' = LeaveTimers(timers, rooms, s, t)
    /\ UNCHANGED <<now, conn, ticks>>
    /\ events' = events + 1

\* leave-room (line 165): leaveRoom() with no argument
LeaveRoom(s) ==
    /\ conn[s] = "connected"
    /\ LET t == currentRoomID[s] IN
        IF t = Null
        THEN /\ out' = <<>>
             /\ UNCHANGED <<rooms, joined, currentRoomID, timers>>
        ELSE /\ rooms' = LeaveRooms(rooms, s, t)
             /\ out' = Tag(LeaveEmits(rooms, joined, s, t), "leave-room", s, NoTimer)
             /\ joined' = [joined EXCEPT ![s] = @ \ {t}]
             /\ currentRoomID' = [currentRoomID EXCEPT ![s] = Null]
             /\ timers' = LeaveTimers(timers, rooms, s, t)
    /\ UNCHANGED <<now, conn, ticks>>
    /\ events' = events + 1

\* disconnect (lines 167-170); socket.io has already taken the socket out of
\* every adapter room when the handler runs
Disconnect(s) ==
    /\ conn[s] = "connected"
    /\ conn' = [conn EXCEPT ![s] = "disconnected"]
    /\ joined' = [joined EXCEPT ![s] = {}]
    /\ LET t == currentRoomID[s] IN
        IF t = Null
        THEN /\ out' = <<>>
             /\ UNCHANGED <<rooms, currentRoomID, timers>>
        ELSE /\ rooms' = LeaveRooms(rooms, s, t)
             /\ out' = Tag(LeaveEmits(rooms, joined', s, t), "disconnect", s, NoTimer)
             /\ currentRoomID' = [currentRoomID EXCEPT ![s] = Null]
             /\ timers' = LeaveTimers(timers, rooms, s, t)
    /\ UNCHANGED <<now, ticks>>
    /\ events' = events + 1

\* -------------------------------------------------------------- join-queue
\* JoinChoice that takes the last room with a free place
JoinChoice_Last(rs, s) ==
    LET Free == {i \in DOMAIN rs : /\ Len(rs[i].participants) < ROOM_SIZE
                                   /\ s \notin Range(rs[i].participants)}
    IN  IF Free = {} THEN 0 ELSE CHOOSE m \in Free : \A n \in Free : m >= n

\* lines 54-60: index of the first room with a free place, 0 if there is none
JoinChoice(rs, s) ==
    LET Free == {i \in DOMAIN rs : /\ Len(rs[i].participants) < ROOM_SIZE
                                   /\ s \notin Range(rs[i].participants)}
    IN  IF Free = {} THEN 0 ELSE Min(Free)

\* JoinRoomID that takes the first room, full or not
JoinRoomID_First(rs, s, clock) == IF rs # <<>> THEN rs[1].id ELSE clock

\* lines 54-66: the identifier the connection is placed in
JoinRoomID(rs, s, clock) ==
    IF JoinChoice(rs, s) # 0 THEN rs[JoinChoice(rs, s)].id ELSE clock

\* lines 62-66: rooms[roomID] = {...} when no room was found
JoinCreate(rs, s, clock) ==
    IF JoinChoice(rs, s) # 0 THEN rs
    ELSE IF HasRoom(rs, clock)
         THEN [rs EXCEPT ![RoomIdx(rs, clock)] = NewRoom(clock)]
         ELSE Append(rs, NewRoom(clock))

\* JoinAdd that leaves the ready state alone
JoinAdd_NoReset(rs, s, id) ==
    LET i == RoomIdx(rs, id) IN
    [rs EXCEPT ![i].participants = IF s \in Range(@) THEN @ ELSE Append(@, s)]

\* lines 70-73
JoinAdd(rs, s, id) ==
    LET i == RoomIdx(rs, id) IN
    [rs EXCEPT ![i] =
        [@ EXCEPT !.participants = IF s \in Range(@) THEN @ ELSE Append(@, s),
                  !.readyStates = MapSet(@, s, FALSE)]]

\* JoinCleanup without the cleanup: the previous room is not left
JoinCleanup_Skip(rs, s, cur) == rs

\* lines 49-52: the room table once the previous room has been left
JoinCleanup(rs, s, cur) == IF cur # Null THEN LeaveRooms(rs, s, cur) ELSE rs

JoinQueue(s) ==
    /\ conn[s] = "connected"
    /\ LET cur == currentRoomID[s]
           rs1 == JoinCleanup(rooms, s, cur)
           ev1 == IF cur # Null THEN LeaveEmits(rooms, joined, s, cur) ELSE <<>>
           jn1 == IF cur # Null THEN [joined EXCEPT ![s] = @ \ {cur}] ELSE joined
           id  == JoinRoomID(rs1, s, now)
           rs2 == JoinAdd(JoinCreate(rs1, s, now), s, id)
           jn2 == [jn1 EXCEPT ![s] = @ \cup {id}]
       IN  /\ rooms' = rs2
           /\ joined' = jn2
           /\ currentRoomID' = [currentRoomID EXCEPT ![s] = id]
           /\ out' = Tag(ev1 \o <<RoomUpdate(rs2[RoomIdx(rs2, id)], Members(jn2, id))>>,
                       "join-queue", s, NoTimer)
           /\ timers' = IF cur # Null THEN LeaveTimers(timers, rooms, s, cur)
                        ELSE timers
    /\ UNCHANGED <<now, conn, ticks>>
    /\ events' = events + 1

\* ------------------------------------------------------------ toggle-ready
\* line 97: the start barrier as the handler evaluates it
StartCond(r) == Len(r.participants) = ROOM_SIZE /\ ReadyCount(r) = ROOM_SIZE

\* endingDelay without the two minutes of warning
endingDelay_NoLead == sessionDuration

\* line 110: the delay of the session-ending callback
endingDelay == sessionDuration - 2 * 60 * 1000

\* lines 108-118: the two callbacks armed by a start; owner is the connection
\* whose handler armed them (they read that connection's currentRoomID when
\* they run)
SessionTimers(s, r, clock, to) ==
    LET base == [NoTimer EXCEPT !.owner = s, !.room = r.id, !.t0 = clock,
                                !.audience = to]
    IN  << [base EXCEPT !.kind = "session-ending", !.at = clock + endingDelay],
           [base EXCEPT !.kind = "session-dissolved", !.at = clock + sessionDuration] >>

\* StartSession without the participant list
StartSession_NoPeers(r, to) ==
    [Emit("start-session", r.id, to) EXCEPT
        !.roomID = r.id, !.duration = sessionDuration]

\* lines 101-105
StartSession(r, to) ==
    [Emit("start-session", r.id, to) EXCEPT
        !.roomID = r.id, !.peers = r.participants, !.duration = sessionDuration]

\* ToggleRooms that writes the ready state in every room
ToggleRooms_All(rs, s, cur, isReady) ==
    [i \in DOMAIN rs |-> [rs[i] EXCEPT !.readyStates = MapSet(@, s, isReady)]]

\* line 85
ToggleRooms(rs, s, cur, isReady) ==
    [rs EXCEPT ![RoomIdx(rs, cur)].readyStates = MapSet(@, s, isReady)]

ToggleReady(s, isReady) ==
    /\ conn[s] = "connected"
    /\ LET cur == currentRoomID[s] IN
        IF cur # Null /\ HasRoom(rooms, cur)
        THEN LET rs1 == ToggleRooms(rooms, s, cur, isReady)
                 i   == RoomIdx(rs1, cur)
                 r   == rs1[i]
                 to  == Members(joined, cur)
             IN  IF StartCond(r)
                 THEN /\ rooms' = [rs1 EXCEPT ![i].starts = @ + 1]
                      /\ out' = Tag(<<RoomUpdate(r, to), StartSession(r, to)>>,
                                   "toggle-ready", s, NoTimer)
                      /\ timers' = timers \o SessionTimers(s, r, now, to)
                 ELSE /\ rooms' = rs1
                      /\ out' = Tag(<<RoomUpdate(r, to)>>, "toggle-ready", s, NoTimer)
                      /\ UNCHANGED timers
        ELSE /\ out' = <<>>
             /\ UNCHANGED <<rooms, timers>>
    /\ UNCHANGED <<now, conn, currentRoomID, joined, ticks>>
    /\ events' = events + 1

\* --------------------------------------------------------- flag-participant
Max(a, b) == IF a >= b THEN a ELSE b

\* threshold without the floor of two accusers
threshold_Single == Max(1, ROOM_SIZE \div 2)

\* line 131
threshold == Max(2, (ROOM_SIZE \div 2) + 1)

\* lines 125-128
FlagRooms(rs, s, cur, targetId) ==
    [rs EXCEPT ![RoomIdx(rs, cur)].flags =
        MapSet(@, targetId, (IF targetId \in DOMAIN @ THEN @[targetId] ELSE {}) \cup {s})]

\* KickRooms without the removal
KickRooms_Keep(rs, cur, targetId) == rs

\* lines 143-146
KickRooms(rs, cur, targetId) ==
    [rs EXCEPT ![RoomIdx(rs, cur)] =
        [@ EXCEPT !.participants = Without(@, targetId),
                  !.readyStates = MapDel(@, targetId),
                  !.flags = MapDel(@, targetId)]]

\* lines 137-140: io.sockets.sockets.get(targetId) and the direct emit; the
\* event has no payload, peers observes the participants of room r when the
\* notice is sent
KickNotice(cn, r, targetId) ==
    IF targetId \in Sockets /\ cn[targetId] = "connected"
    THEN << [Emit("session-dissolved", targetId, {targetId}) EXCEPT
                !.addr = "socket", !.peers = r.participants] >>
    ELSE <<>>

\* the accusations the room table holds
Flagged(rs) ==
    {<<i, t, a>> \in (DOMAIN rs) \X (Sockets \cup {Unknown}) \X Sockets :
        t \in DOMAIN rs[i].flags /\ a \in rs[i].flags[t]}

FlagParticipant(s, targetId) ==
    /\ conn[s] = "connected"
    /\ LET cur == currentRoomID[s] IN
        IF cur # Null /\ HasRoom(rooms, cur)
        THEN LET rs1 == FlagRooms(rooms, s, cur, targetId)
                 flagCount == Cardinality(rs1[RoomIdx(rs1, cur)].flags[targetId])
             IN  IF flagCount >= threshold
                 THEN LET rs2 == KickRooms(rs1, cur, targetId) IN
                      /\ rooms' = rs2
                      /\ out' = Tag(KickNotice(conn, rs1[RoomIdx(rs1, cur)], targetId) \o
                                    <<ParticipantRemoved(rs2[RoomIdx(rs2, cur)],
                                                         Members(joined, cur), targetId)>>,
                                    "flag-participant", s, NoTimer)
                 ELSE /\ rooms' = rs1
                      /\ out' = <<>>
        ELSE /\ out' = <<>>
             /\ UNCHANGED rooms
    /\ UNCHANGED <<now, conn, currentRoomID, joined, timers, ticks>>
    /\ events' = events + 1

\* ------------------------------------------------------------------ signal
Payloads == {"offer", "candidate"}

\* every room name the adapter or the room table knows
RoomNames == RoomIds(rooms) \cup UNION {joined[s] : s \in Sockets}

\* the connections io.to(name) reaches: a connection is in the room named by
\* its own identifier while it is connected
Reach(addr, name) ==
    IF addr = "socket"
    THEN {s \in Sockets : s = name /\ conn[s] = "connected"}
    ELSE Members(joined, name)

\* lines 158-163
Signal(s, addr, name, payload) ==
    /\ conn[s] = "connected"
    /\ out' = Tag(<< [Emit("signal", name, Reach(addr, name)) EXCEPT
                         !.addr = addr, !.from = s, !.signal = payload] >>,
                   "signal", s, NoTimer)
    /\ UNCHANGED <<now, conn, currentRoomID, joined, rooms, timers, ticks, events>>

\* ------------------------------------------------------------------ timers
\* a callback runs when its delay has elapsed; callbacks armed with the same
\* delay run in the order they were armed
Due(i) ==
    /\ timers[i].at = now
    /\ \A j \in 1..(i - 1) : ~(timers[j].at = now /\ timers[j].kind = timers[i].kind)

\* lines 108-110
SessionEnding(i) ==
    /\ timers[i].kind = "session-ending"
    /\ Due(i)
    /\ LET id == currentRoomID[timers[i].owner] IN
       out' = Tag(<< [Emit("session-ending", id, Members(joined, id)) EXCEPT
                         !.remaining = 2 * 60 * 1000] >>,
                  "timer", timers[i].owner, timers[i])
    /\ timers' = RemoveAt(timers, i)
    /\ UNCHANGED <<now, conn, currentRoomID, joined, rooms, ticks, events>>

\* DissolveRooms without the delete
DissolveRooms_Keep(rs, id) == rs

\* lines 115-117
DissolveRooms(rs, id) == IF HasRoom(rs, id) THEN RemoveAt(rs, RoomIdx(rs, id)) ELSE rs

\* lines 112-118
SessionDissolved(i) ==
    /\ timers[i].kind = "session-dissolved"
    /\ Due(i)
    /\ LET id == currentRoomID[timers[i].owner] IN
        /\ out' = Tag(<< Emit("session-dissolved", id, Members(joined, id)) >>,
                       "timer", timers[i].owner, timers[i])
        /\ rooms' = DissolveRooms(rooms, id)
    /\ timers' = RemoveAt(timers, i)
    /\ UNCHANGED <<now, conn, currentRoomID, joined, ticks, events>>

\* ------------------------------------------------------------------- clock
NoneDue == \A i \in DOMAIN timers : timers[i].at > now

\* one millisecond passes
Tick ==
    /\ ticks < MaxTicks
    /\ NoneDue
    /\ now' = now + 1
    /\ ticks' = ticks + 1
    /\ out' = <<>>
    /\ UNCHANGED <<conn, currentRoomID, joined, rooms, timers, events>>

\* nothing happens until the next callback is due
Sleep ==
    /\ timers # <<>>
    /\ NoneDue
    /\ now' = Min({timers[i].at : i \in DOMAIN timers})
    /\ out' = <<>>
    /\ UNCHANGED <<conn, currentRoomID, joined, rooms, timers, ticks, events>>

\* --------------------------------------------------------------------- spec
FlagTargets == {s \in Sockets : conn[s] # "new"} \cup {Unknown}

\* the server under any sequence of events a connection can send; the browser
\* side is left out (it stays as it is mounted)
Next ==
    \/ UNCHANGED ui /\ \E s \in Sockets : Connect(s)
    \/ UNCHANGED ui /\ events < MaxEvents /\ \E s \in Sockets : JoinQueue(s)
    \/ UNCHANGED ui /\ events < MaxEvents /\ \E s \in Sockets, isReady \in BOOLEAN : ToggleReady(s, isReady)
    \/ /\ UNCHANGED ui
       /\ events < MaxEvents
       /\ Cardinality(Flagged(rooms)) < MaxFlagged
       /\ \E s \in Sockets, targetId \in FlagTargets : FlagParticipant(s, targetId)
    \/ UNCHANGED ui /\ events < MaxEvents /\ \E s \in Sockets : LeaveRoom(s)
    \/ UNCHANGED ui /\ events < MaxEvents /\ \E s \in Sockets : Disconnect(s)
    \/ UNCHANGED ui /\ \E i \in DOMAIN timers : SessionEnding(i)
    \/ UNCHANGED ui /\ \E i \in DOMAIN timers : SessionDissolved(i)
    \/ UNCHANGED ui /\ Tick
    \/ UNCHANGED ui /\ Sleep

Spec == Init /\ [][Next]_vars

\* the same server while the clock stands still: every event is handled in the
\* millisecond the server started in, and no callback is due
NextBurst ==
    \/ UNCHANGED ui /\ \E s \in Sockets : Connect(s)
    \/ UNCHANGED ui /\ events < MaxBurstEvents /\ \E s \in Sockets : JoinQueue(s)
    \/ UNCHANGED ui /\ events < MaxBurstEvents /\ \E s \in Sockets, isReady \in BOOLEAN : ToggleReady(s, isReady)
    \/ /\ UNCHANGED ui
       /\ events < MaxBurstEvents
       /\ Cardinality(Flagged(rooms)) < MaxFlagged
       /\ \E s \in Sockets, targetId \in FlagTargets : FlagParticipant(s, targetId)
    \/ UNCHANGED ui /\ events < MaxBurstEvents /\ \E s \in Sockets : LeaveRoom(s)
    \/ UNCHANGED ui /\ events < MaxBurstEvents /\ \E s \in Sockets : Disconnect(s)

SpecBurst == Init /\ [][NextBurst]_vars

\* matchmaking and the signal relay: data.to is whatever the client sends, a
\* connection identifier, a name that is no connection, or the name of a room
NextRelay ==
    \/ UNCHANGED ui /\ \E s \in Sockets : Connect(s)
    \/ UNCHANGED ui /\ events < MaxRelayEvents /\ \E s \in Sockets : JoinQueue(s)
    \/ UNCHANGED ui /\ events < MaxRelayEvents /\ \E s \in Sockets : LeaveRoom(s)
    \/ UNCHANGED ui /\ events < MaxRelayEvents /\ \E s \in Sockets : Disconnect(s)
    \/ UNCHANGED ui /\ \E s \in Sockets, name \in Sockets \cup {Unknown}, payload \in Payloads :
            Signal(s, "socket", name, payload)
    \/ UNCHANGED ui /\ \E s \in Sockets, name \in RoomNames, payload \in Payloads :
            Signal(s, "room", name, payload)
    \/ UNCHANGED ui /\ Tick

SpecRelay == Init /\ [][NextRelay]_vars

\* ------------------------------------------------------------------ client
\* the property key the server makes of the payload of toggleFlag in part_001
\* and part_002, the object {roomID, targetPeerID}: every object becomes the
\* key "[object Object]", which is the identifier of no connection, compares
\* unequal to every participant and is not found by io.sockets.sockets.get
ObjectKey == Unknown

\* the payload of flag-participant: Campfire.tsx line 191, part_002 line 188
flagPayload(b, peerId) == IF b = "Campfire.tsx" THEN peerId ELSE ObjectKey

\* the listeners of one browser tab s for one event e (App.tsx lines 21-33,
\* Campfire lines 55-65): start-session shows the campfire, which mounts with
\* the peers of the event unless it is shown already; session-dissolved shows
\* the post-session view; participant-removed replaces the peers of a mounted
\* campfire
On(u, s, e) ==
    IF s \notin e.to THEN u
    ELSE IF e.ev = "start-session"
         THEN IF u.view = "campfire" THEN u
              ELSE [view |-> "campfire", isReady |-> FALSE,
                    currentPeers |-> e.peers, flagged |-> {}]
    ELSE IF e.ev = "session-dissolved"
         THEN [Mounted EXCEPT !.view = "post-session"]
    ELSE IF e.ev = "participant-removed" /\ u.view = "campfire"
         THEN [u EXCEPT !.currentPeers = e.peers]
    ELSE u

RECURSIVE Receive(_, _, _)
Receive(u, s, evs) ==
    IF evs = <<>> THEN u ELSE Receive(On(u, s, Head(evs)), s, Tail(evs))

\* every tab handles the events the server sent to it, in order
Deliver(cl, evs) == [s \in Sockets |-> Receive(cl[s], s, evs)]

\* a step of the browser that sends nothing
NoEvent ==
    /\ out' = <<>>
    /\ UNCHANGED <<now, conn, currentRoomID, joined, rooms, timers, ticks, events>>

\* App.tsx lines 17-19: the tab opens its connection
Open(s) ==
    /\ Connect(s)
    /\ UNCHANGED ui

\* the tab is closed
Close(s) ==
    /\ Disconnect(s)
    /\ client' = Deliver([client EXCEPT ![s] = Mounted], out')
    /\ UNCHANGED build

\* App.tsx lines 40-45
handleStartFinding(s) ==
    /\ client[s].view = "lobby"
    /\ JoinQueue(s)
    /\ client' = Deliver([client EXCEPT ![s].view = "ready"], out')
    /\ UNCHANGED build

\* ReadyRoom (part_000) lines 25-29
handleToggleReady(s) ==
    /\ client[s].view = "ready"
    /\ LET nextReady == ~client[s].isReady IN
        /\ ToggleReady(s, nextReady)
        /\ client' = Deliver([client EXCEPT ![s].isReady = nextReady], out')
    /\ UNCHANGED build

\* the flag button of peer peerId (shown for every peer but the tab's own
\* connection) and toggleFlag: Campfire.tsx lines 187-197 send the event only
\* when the peer becomes flagged, part_001 and part_002 lines 187-190 at
\* every click
toggleFlag(s, peerId) ==
    /\ conn[s] = "connected"
    /\ client[s].view = "campfire"
    /\ peerId \in Range(client[s].currentPeers) \ {s}
    /\ LET isFlagging == peerId \notin client[s].flagged
           next == [client EXCEPT ![s].flagged =
                       IF isFlagging THEN @ \cup {peerId} ELSE @ \ {peerId}]
       IN  IF build = "Campfire.tsx" /\ ~isFlagging
           THEN NoEvent /\ client' = next
           ELSE /\ FlagParticipant(s, flagPayload(build, peerId))
                /\ client' = Deliver(next, out')
    /\ UNCHANGED build

\* the Leave Softly button: Campfire.tsx lines 199-202 (handleManualLeave)
\* send leave-room and call onLeave, part_001 line 267 and part_002 line 283
\* call onLeave alone; onLeave is handleLeaveSession, App.tsx lines 47-49
handleLeaveSession(s) ==
    /\ conn[s] = "connected"
    /\ client[s].view = "campfire"
    /\ LET next == [client EXCEPT ![s] = [Mounted EXCEPT !.view = "post-session"]]
       IN  IF build = "Campfire.tsx"
           THEN LeaveRoom(s) /\ client' = Deliver(next, out')
           ELSE NoEvent /\ client' = next
    /\ UNCHANGED build

\* App.tsx line 62
onReturn(s) ==
    /\ conn[s] = "connected"
    /\ client[s].view = "post-session"
    /\ NoEvent
    /\ client' = [client EXCEPT ![s].view = "lobby"]
    /\ UNCHANGED build

\* the tabs handle what a callback of the server sends
Handled ==
    /\ client' = Deliver(client, out')
    /\ UNCHANGED build

InitClient ==
    /\ ServerInit
    /\ client = [s \in Sockets |-> Mounted]
    /\ build \in Builds

\* the server driven by browser tabs that all run one build of the client
NextClient ==
    \/ \E s \in Sockets : Open(s)
    \/ events < MaxClientEvents /\ \E s \in Sockets : Close(s)
    \/ events < MaxClientEvents /\ \E s \in Sockets : handleStartFinding(s)
    \/ events < MaxClientEvents /\ \E s \in Sockets : handleToggleReady(s)
    \/ /\ events < MaxClientEvents
       /\ Cardinality(Flagged(rooms)) < MaxFlagged
       /\ \E s \in Sockets, peerId \in Sockets : toggleFlag(s, peerId)
    \/ events < MaxClientEvents /\ \E s \in Sockets : handleLeaveSession(s)
    \/ \E s \in Sockets : onReturn(s)
    \/ \E i \in DOMAIN timers : SessionEnding(i) /\ Handled
    \/ \E i \in DOMAIN timers : SessionDissolved(i) /\ Handled
    \/ Tick /\ Handled
    \/ Sleep /\ Handled

SpecClient == InitClient /\ [][NextClient]_vars

\* ================================================================== claims
\* the rooms a connection is a participant of, with its position
Places(s) ==
    {<<i, k>> \in (DOMAIN rooms) \X (1..ROOM_SIZE + 1) :
        k \in DOMAIN rooms[i].participants /\ rooms[i].participants[k] = s}

Full(r) == Len(r.participants) = ROOM_SIZE

AllReady(r) ==
    \A p \in Range(r.participants) : p \in DOMAIN r.readyStates /\ r.readyStates[p]

Events == Range(out)

\* C1: every connection identifier is in the participants of at most one
\* room, and at most once in that list.
RoomExclusivity == \A s \in Sockets : Cardinality(Places(s)) <= 1

\* C1 witness: two rooms exist and a connection that was a participant has
\* re-queued (its departure was broadcast, then its join).
RoomExclusivityWitness ==
    /\ Len(rooms) >= 2
    /\ Len(out) = 3
    /\ out[3].src = "join-queue"
    /\ out[2].ev = "participant-removed"
    /\ \E i \in DOMAIN rooms : out[3].by \in Range(rooms[i].participants)

\* C2: whenever start-session is emitted for a room, the room has exactly
\* ROOM_SIZE participants and the ready state of each of them is true.
StartOnlyWhenAllReady ==
    \A e \in Events :
        e.ev = "start-session" =>
            /\ HasRoom(rooms, e.room)
            /\ Full(rooms[RoomIdx(rooms, e.room)])
            /\ AllReady(rooms[RoomIdx(rooms, e.room)])

\* C3: start-session is emitted, and the pair of session timers armed, at
\* most once in the lifetime of a room.
StartAtMostOnce == \A i \in DOMAIN rooms : rooms[i].starts <= 1

\* C5: in every room the keys of readyStates are exactly the participants.
ReadyKeysAreParticipants ==
    \A i \in DOMAIN rooms : DOMAIN rooms[i].readyStates = Range(rooms[i].participants)

\* C6: between handlers every room of the room table has at least one
\* participant.
NoEmptyRooms == \A i \in DOMAIN rooms : Len(rooms[i].participants) >= 1

\* C4: a toggle-ready that leaves a room which had not started with exactly
\* ROOM_SIZE participants, all of them ready, emits start-session to all of
\* them in the same step, after the room-update of that toggle.
StartWhenAllReady ==
    [][\A s \in Sockets, isReady \in BOOLEAN :
        ( /\ ToggleReady(s, isReady)
          /\ currentRoomID[s] # Null
          /\ HasRoom(rooms, currentRoomID[s])
          /\ rooms[RoomIdx(rooms, currentRoomID[s])].starts = 0
          /\ Full(rooms'[RoomIdx(rooms', currentRoomID[s])])
          /\ AllReady(rooms'[RoomIdx(rooms', currentRoomID[s])]) )
        => ( /\ Len(out') = 2
             /\ out'[1].ev = "room-update"
             /\ out'[2].ev = "start-session"
             /\ Range(rooms'[RoomIdx(rooms', currentRoomID[s])].participants) \subseteq out'[2].to )
    ]_vars

\* C7: once the last participant of a started room has departed, no
\* session-ending and no session-dissolved of that session's timers reaches
\* any connection.
NoStrayTimerEvents ==
    \A e \in Events : (e.src = "timer" /\ e.tm.dead) => e.to = {}

\* C8: when the dissolution timer of a session runs and the room that started
\* the session still exists, session-dissolved reaches all of its participants
\* and the room is removed from the room table.
DissolvedAtDeadline ==
    [][\A i \in DOMAIN timers :
        ( /\ SessionDissolved(i)
          /\ HasRoom(rooms, timers[i].room)
          /\ rooms[RoomIdx(rooms, timers[i].room)].starts > 0 )
        => ( /\ Range(rooms[RoomIdx(rooms, timers[i].room)].participants) \subseteq out'[1].to
             /\ ~HasRoom(rooms', timers[i].room) )
    ]_vars

\* C9: the timers armed when room R starts emit to members of R only and
\* delete R only.
TimersScopedToRoom ==
    [][\A i \in DOMAIN timers :
        (SessionEnding(i) \/ SessionDissolved(i))
        => ( /\ out'[1].to # {} => out'[1].room = timers[i].room
             /\ RoomIds(rooms) \ RoomIds(rooms') \subseteq {timers[i].room} )
    ]_vars

\* C10: when no connection of a started room's audience has left it since
\* start-session at t0, session-ending{remaining: 120000} reaches all of them
\* at t0 + 900000 - 120000, session-dissolved reaches all of them at
\* t0 + 900000, session-ending comes first, the room is gone after
\* session-dissolved, and no callback is ever overdue.
ReferenceTiming ==
    /\ \A i \in DOMAIN timers : timers[i].at >= now
    /\ \A e \in Events :
        (e.src = "timer" /\ ~e.tm.left) =>
            /\ e.tm.audience \subseteq e.to
            /\ e.ev = "session-ending" =>
                /\ now = e.tm.t0 + 900000 - 120000
                /\ e.remaining = 120000
            /\ e.ev = "session-dissolved" =>
                /\ now = e.tm.t0 + 900000
                /\ ~HasRoom(rooms, e.tm.room)
                /\ \A j \in DOMAIN timers :
                      ~( /\ timers[j].kind = "session-ending"
                         /\ timers[j].owner = e.tm.owner
                         /\ timers[j].t0 = e.tm.t0 )

\* C10 witness: session-dissolved of an undisturbed session has just reached
\* the ROOM_SIZE connections of the room.
ReferenceTimingWitness ==
    \E e \in Events :
        /\ e.src = "timer"
        /\ e.ev = "session-dissolved"
        /\ ~e.tm.left
        /\ e.to = e.tm.audience
        /\ Cardinality(e.to) = ROOM_SIZE


\* ---------------------------------------------------------------- moderation
\* T(C) = max(2, floor(C/2) + 1)
QuorumT(C) == IF (C \div 2) + 1 > 2 THEN (C \div 2) + 1 ELSE 2

\* the accusers the room records for a target
Accusers(r, targetId) == IF targetId \in DOMAIN r.flags THEN r.flags[targetId] ELSE {}

\* the flag-participant handler has removed targetId in the step that emitted evs
Kicked(evs, targetId) ==
    \E e \in Range(evs) :
        e.src = "flag-participant" /\ e.ev = "participant-removed" /\ e.peerId = targetId

\* C11: a flag-participant removes its target exactly when the distinct
\* accusers recorded for the target in the room, the flagging connection
\* included, number at least T(ROOM_SIZE); otherwise participants are
\* untouched and the accuser is recorded, and an accuser already recorded does
\* not increase the count; no recorded count ever stands at the threshold.
QuorumKick ==
    [][/\ \A s \in Sockets, targetId \in Sockets \cup {Unknown} :
            ( /\ FlagParticipant(s, targetId)
              /\ currentRoomID[s] # Null
              /\ HasRoom(rooms, currentRoomID[s]) )
            => LET i == RoomIdx(rooms, currentRoomID[s])
                   before == Accusers(rooms[i], targetId)
               IN  /\ Kicked(out', targetId)
                         <=> Cardinality(before \cup {s}) >= QuorumT(ROOM_SIZE)
                   /\ Kicked(out', targetId)
                         => targetId \notin Range(rooms'[i].participants)
                   /\ ~Kicked(out', targetId)
                         => /\ rooms'[i].participants = rooms[i].participants
                            /\ Accusers(rooms'[i], targetId) = before \cup {s}
                   /\ s \in before
                         => /\ ~Kicked(out', targetId)
                            /\ Cardinality(Accusers(rooms'[i], targetId)) = Cardinality(before)
       /\ \A j \in DOMAIN rooms' : \A t \in DOMAIN rooms'[j].flags :
            Cardinality(rooms'[j].flags[t]) < QuorumT(ROOM_SIZE)
    ]_vars

\* C11 witness: a target has just been removed on the flag of a second
\* accuser, who is not the target.
QuorumKickWitness ==
    \E e \in Events :
        /\ e.src = "flag-participant"
        /\ e.ev = "participant-removed"
        /\ e.peerId \in Sockets
        /\ e.peerId # e.by
        /\ Len(e.peers) = 1


\* C12: the participant-removed of a removal by quorum does not reach the
\* removed target; it reaches remaining participants of the room only.
SilentRemoval ==
    \A e \in Events :
        (e.src = "flag-participant" /\ e.ev = "participant-removed")
        => /\ e.peerId \notin e.to
           /\ e.to \subseteq Range(e.peers)


\* C13: on a removal by quorum the notice session-dissolved is sent to the
\* target, when it is connected, while the target is still in the
\* participants it had; participant-removed is emitted after it, and its
\* newPeers is the participant list without the target, which is the list the
\* room then holds.
KickOrdering ==
    [][\A s \in Sockets, targetId \in Sockets \cup {Unknown} :
        ( /\ FlagParticipant(s, targetId)
          /\ currentRoomID[s] # Null
          /\ HasRoom(rooms, currentRoomID[s])
          /\ Kicked(out', targetId) )
        => LET i == RoomIdx(rooms, currentRoomID[s])
               before == rooms[i].participants
               n == Len(out')
           IN  /\ out'[n].ev = "participant-removed"
               /\ out'[n].peerId = targetId
               /\ out'[n].peers = Without(before, targetId)
               /\ out'[n].peers = rooms'[i].participants
               /\ IF targetId \in Sockets /\ conn[targetId] = "connected"
                  THEN /\ n = 2
                       /\ out'[1].ev = "session-dissolved"
                       /\ out'[1].to = {targetId}
                       /\ out'[1].peers = before
                  ELSE n = 1
    ]_vars

\* C13 witness: a connected participant has just been removed by quorum; the
\* notice saw it among the participants, the broadcast did not.
KickOrderingWitness ==
    /\ Len(out) = 2
    /\ out[1].src = "flag-participant"
    /\ out[1].ev = "session-dissolved"
    /\ out[2].ev = "participant-removed"
    /\ out[2].peerId \in Range(out[1].peers)
    /\ out[2].peerId \notin Range(out[2].peers)
    /\ out[2].peers # <<>>


\* C14: the room-update and participant-removed that leave-room or a
\* re-issued join-queue emit for the departure of a connection do not reach
\* that connection.
DepartureScope ==
    \A k \in DOMAIN out :
        ( /\ out[k].src \in {"leave-room", "join-queue"}
          /\ \/ out[k].ev = "participant-removed"
             \/ k + 1 \in DOMAIN out /\ out[k + 1].ev = "participant-removed" )
        => out[k].by \notin out[k].to


\* C15: a signal sent by S with to = X reaches connection X when X is a
\* connected connection, reaches no other connection, and carries from = S.
SignalRelay ==
    \A e \in Events :
        e.ev = "signal"
        => /\ e.to \subseteq {x \in Sockets : e.addr = "socket" /\ x = e.room}
           /\ (e.addr = "socket" /\ e.room \in Sockets /\ conn[e.room] = "connected")
                 => e.room \in e.to
           /\ e.from = e.by
           /\ e.signal \in Payloads


\* ------------------------------------------------------------------ scenario
\* e is room-update{n, k} and reaches the connections in members
IsRoomUpdate(e, n, k, members) ==
    /\ e.ev = "room-update"
    /\ e.participants = n
    /\ e.readyCount = k
    /\ members \subseteq e.to

\* the room table is one room with participants ps and ready states rd, and
\* the connections of ps have it as their room
OneRoom(rs, cur, jn, ps, rd) ==
    /\ Len(rs) = 1
    /\ rs[1].participants = ps
    /\ rs[1].readyStates = rd
    /\ \A p \in Range(ps) : cur[p] = rs[1].id /\ rs[1].id \in jn[p]

\* C16: with ROOM_SIZE = 2, from an empty room table and connections A, B
\* that are in no room: A join-queue emits exactly room-update{1,0}; then B
\* join-queue exactly room-update{2,0}; then A toggle-ready(true) exactly
\* room-update{2,1}; then B toggle-ready(true) exactly room-update{2,2}
\* followed by start-session{peers: [A, B], duration: 900000}; each reaches
\* every participant the room has at that moment.
ReferenceScenario ==
    [][\A a \in Sockets : \A b \in Sockets \ {a} :
        /\ ( /\ rooms = <<>>
             /\ currentRoomID[a] = Null
             /\ JoinQueue(a) )
           => /\ Len(out') = 1
              /\ IsRoomUpdate(out'[1], 1, 0, {a})
              /\ OneRoom(rooms', currentRoomID', joined', <<a>>, [p \in {a} |-> FALSE])
        /\ ( /\ OneRoom(rooms, currentRoomID, joined, <<a>>, [p \in {a} |-> FALSE])
             /\ currentRoomID[b] = Null
             /\ JoinQueue(b) )
           => /\ Len(out') = 1
              /\ IsRoomUpdate(out'[1], 2, 0, {a, b})
              /\ OneRoom(rooms', currentRoomID', joined', <<a, b>>, [p \in {a, b} |-> FALSE])
        /\ ( /\ OneRoom(rooms, currentRoomID, joined, <<a, b>>, [p \in {a, b} |-> FALSE])
             /\ ToggleReady(a, TRUE) )
           => /\ Len(out') = 1
              /\ IsRoomUpdate(out'[1], 2, 1, {a, b})
              /\ OneRoom(rooms', currentRoomID', joined', <<a, b>>, [p \in {a, b} |-> p = a])
        /\ ( /\ OneRoom(rooms, currentRoomID, joined, <<a, b>>, [p \in {a, b} |-> p = a])
             /\ ToggleReady(b, TRUE) )
           => /\ Len(out') = 2
              /\ IsRoomUpdate(out'[1], 2, 2, {a, b})
              /\ out'[2].ev = "start-session"
              /\ out'[2].peers = <<a, b>>
              /\ out'[2].duration = 900000
              /\ out'[2].roomID = rooms[1].id
              /\ {a, b} \subseteq out'[2].to
    ]_vars

\* C16 witness: the server has handled four events, the last one the
\* toggle-ready of the second participant, and start-session has gone to the
\* two participants of the only room.
ReferenceScenarioWitness ==
    /\ events = 4
    /\ Len(rooms) = 1
    /\ Len(out) = 2
    /\ out[1].ev = "room-update"
    /\ out[1].readyCount = 2
    /\ out[2].ev = "start-session"
    /\ Len(out[2].peers) = 2
    /\ out[2].by = out[2].peers[2]
    /\ out[2].to = Range(out[2].peers)


\* C17: a toggle-ready from a connection that is a participant of no room
\* changes nothing in the room table and emits nothing.
ToggleOutsideRoom ==
    [][\A s \in Sockets, isReady \in BOOLEAN :
        (ToggleReady(s, isReady) /\ Places(s) = {})
        => (rooms' = rooms /\ out' = <<>>)
    ]_vars


\* C18: when join-queue finds no room with a free place and creates one, no
\* room of the table has the identifier it generates.
FreshRoomID ==
    [][\A s \in Sockets :
        ( /\ JoinQueue(s)
          /\ JoinChoice(JoinCleanup(rooms, s, currentRoomID[s]), s) = 0 )
        => ~HasRoom(JoinCleanup(rooms, s, currentRoomID[s]), currentRoomID'[s])
    ]_vars


\* ------------------------------------------------------------------ re-queue
\* the rooms of table rs that have s among their participants
RoomsOf(rs, s) == {i \in DOMAIN rs : s \in Range(rs[i].participants)}

\* C19: a join-queue from a participant s of a room takes s out of that room
\* first: when others remain they are sent room-update and
\* participant-removed{s, the others} and the room keeps the others (s may be
\* placed in it again, at the end); when nobody remains the room is deleted
\* (a room created under the same identifier is a new one).  Afterwards s is
\* a participant of exactly one room, once, with ready state false, and that
\* room is its currentRoomID.
SafeRequeue ==
    [][\A s \in Sockets :
        (JoinQueue(s) /\ Places(s) # {})
        => /\ HasRoom(rooms, currentRoomID[s])
           /\ RoomsOf(rooms, s) = {RoomIdx(rooms, currentRoomID[s])}
           /\ LET prior == rooms[RoomIdx(rooms, currentRoomID[s])]
                  rest == Without(prior.participants, s)
                  n == Len(out')
              IN  /\ IF rest = <<>>
                     THEN /\ n = 1
                          /\ HasRoom(rooms', prior.id)
                                => LET q == rooms'[RoomIdx(rooms', prior.id)]
                                   IN  /\ q.participants = <<s>>
                                       /\ q.flags = EmptyMap
                                       /\ q.starts = 0
                     ELSE /\ n = 3
                          /\ out'[1].ev = "room-update"
                          /\ out'[1].room = prior.id
                          /\ out'[1].participants = Len(rest)
                          /\ out'[2].ev = "participant-removed"
                          /\ out'[2].room = prior.id
                          /\ out'[2].peerId = s
                          /\ out'[2].peers = rest
                          /\ Range(rest) \subseteq out'[1].to \cap out'[2].to
                          /\ HasRoom(rooms', prior.id)
                          /\ LET q == rooms'[RoomIdx(rooms', prior.id)]
                             IN  /\ q.participants \in {rest, Append(rest, s)}
                                 /\ s \in DOMAIN q.readyStates
                                       => s \in Range(q.participants)
                  /\ out'[n].ev = "room-update"
                  /\ out'[n].room = currentRoomID'[s]
                  /\ s \in out'[n].to
           /\ HasRoom(rooms', currentRoomID'[s])
           /\ RoomsOf(rooms', s) = {RoomIdx(rooms', currentRoomID'[s])}
           /\ LET q == rooms'[RoomIdx(rooms', currentRoomID'[s])]
              IN  /\ Len(SelectSeq(q.participants, LAMBDA p : p = s)) = 1
                  /\ s \in DOMAIN q.readyStates
                  /\ q.readyStates[s] = FALSE
    ]_vars

\* C19 witness: a participant has re-queued; the participant it left behind
\* was told, and it is a participant again, with ready state false.
SafeRequeueWitness ==
    /\ Len(out) = 3
    /\ out[3].src = "join-queue"
    /\ out[2].ev = "participant-removed"
    /\ out[2].peerId = out[3].by
    /\ out[2].peers # <<>>
    /\ out[1].readyCount = 0
    /\ RoomsOf(rooms, out[3].by) # {}
    /\ \A i \in RoomsOf(rooms, out[3].by) : ~rooms[i].readyStates[out[3].by]
    /\ events >= 4


\* ------------------------------------------------------------------- release
\* the participant-removed events of evs that name s
Removals(evs, s) ==
    {k \in DOMAIN evs : evs[k].ev = "participant-removed" /\ evs[k].peerId = s}

\* C20: leave-room and disconnect each leave the connection in no room
\* (participants, socket.io room, currentRoomID) and emit at most one
\* participant-removed naming it; when the connection has already left, the
\* event changes nothing in the room table and emits nothing; a disconnected
\* connection, whose later events the server does not handle, holds no room.
ReleasedOnce ==
    [][\A s \in Sockets :
        /\ (LeaveRoom(s) \/ Disconnect(s))
           => /\ RoomsOf(rooms', s) = {}
              /\ joined'[s] = {}
              /\ currentRoomID'[s] = Null
              /\ Cardinality(Removals(out', s)) <= 1
        /\ ((LeaveRoom(s) \/ Disconnect(s)) /\ joined[s] = {})
           => (rooms' = rooms /\ out' = <<>>)
        /\ conn'[s] = "disconnected"
           => /\ RoomsOf(rooms', s) = {}
              /\ joined'[s] = {}
              /\ currentRoomID'[s] = Null
    ]_vars

\* C20 witness: s had flagged p in the room they shared, left it by
\* leave-room, and has now disconnected: five events, the last of which
\* emitted nothing and left p's room as it was.
ReleasedOnceWitness ==
    \E s \in Sockets : \E p \in Sockets \ {s} :
        /\ events = 5
        /\ now = T0
        /\ out = <<>>
        /\ conn[s] = "disconnected"
        /\ conn[p] = "connected"
        /\ \A x \in Sockets \ {s, p} : conn[x] = "new"
        /\ Len(rooms) = 1
        /\ rooms[1].participants = <<p>>
        /\ DOMAIN rooms[1].readyStates = {p}
        /\ DOMAIN rooms[1].flags = {p}
        /\ rooms[1].flags[p] = {s}


\* --------------------------------------------------------------- re-entrancy
\* s still refers to a room that is gone, created before the present
\* millisecond
RefersToGone(s) ==
    /\ currentRoomID[s] # Null
    /\ ~HasRoom(rooms, currentRoomID[s])
    /\ currentRoomID[s] < now

\* C21: the dissolution callback of a room, run at the room's deadline,
\* deletes the room, whose identifier is older than the clock; from then on,
\* as long as a connection still refers to a room that is gone, no step
\* brings a room of that identifier back (identifiers are made from the
\* clock, which does not go back), and its toggle-ready, flag-participant,
\* leave-room and disconnect change no room and emit nothing.
NoOpAfterDissolved ==
    [][/\ now' >= now
       /\ \A j \in DOMAIN rooms' : rooms'[j].id <= now'
       /\ \A i \in DOMAIN timers :
            ( /\ SessionDissolved(i)
              /\ currentRoomID[timers[i].owner] = timers[i].room
              /\ HasRoom(rooms, timers[i].room) )
            => /\ ~HasRoom(rooms', timers[i].room)
               /\ timers[i].room < now
               /\ now = timers[i].t0 + 900000
       /\ \A s \in Sockets :
            RefersToGone(s)
            => /\ ~HasRoom(rooms', currentRoomID[s])
               /\ ( \/ \E isReady \in BOOLEAN : ToggleReady(s, isReady)
                    \/ \E targetId \in Sockets \cup {Unknown} : FlagParticipant(s, targetId)
                    \/ LeaveRoom(s)
                    \/ Disconnect(s) )
                  => (rooms' = rooms /\ out' = <<>>)
    ]_vars

\* C21 witness: a session of two has run to its deadline and the room has
\* been dissolved; a former member, still referring to it, has since sent a
\* fifth event, which emitted nothing and left the room table empty.
NoOpAfterDissolvedWitness ==
    /\ now = T0 + 900000
    /\ timers = <<>>
    /\ rooms = <<>>
    /\ out = <<>>
    /\ events = 5
    /\ ticks = 0
    /\ Cardinality({s \in Sockets : conn[s] = "new"}) = MaxSockets - 2
    /\ \E s \in Sockets : conn[s] = "connected" /\ RefersToGone(s)


\* ---------------------------------------------------------------- matchmaker
\* the rooms of table rs that have fewer than ROOM_SIZE participants
UnderCapacity(rs) == {i \in DOMAIN rs : Len(rs[i].participants) < ROOM_SIZE}

\* C22: once the joining connection has left its previous room, join-queue
\* places it in the first room, in the order of the room table, that has
\* fewer than ROOM_SIZE participants, and creates no room; it creates a
\* room, with the connection as only participant, only when every room of
\* the table has ROOM_SIZE participants.
MatchmakerChoice ==
    [][\A s \in Sockets :
        JoinQueue(s)
        => LET rs == IF currentRoomID[s] # Null
                     THEN LeaveRooms(rooms, s, currentRoomID[s]) ELSE rooms
               under == UnderCapacity(rs)
           IN  IF under # {}
               THEN /\ currentRoomID'[s] = rs[Min(under)].id
                    /\ Len(rooms') = Len(rs)
                    /\ \A i \in DOMAIN rs : rooms'[i].id = rs[i].id
                    /\ rooms'[Min(under)].participants
                            = Append(rs[Min(under)].participants, s)
                    /\ \A i \in DOMAIN rs \ {Min(under)} : rooms'[i] = rs[i]
               ELSE /\ \A i \in DOMAIN rs : Len(rs[i].participants) = ROOM_SIZE
                    /\ currentRoomID'[s] = now
                    /\ HasRoom(rooms', now)
                    /\ rooms'[RoomIdx(rooms', now)].participants = <<s>>
                    /\ Len(rooms') <= Len(rs) + 1
    ]_vars

\* C22 witness: two rooms had a free place and the connection that has just
\* joined was placed in the first; the second still has its free place.
MatchmakerChoiceWitness ==
    /\ Len(rooms) >= 2
    /\ out # <<>>
    /\ out[Len(out)].src = "join-queue"
    /\ rooms[1].participants # <<>>
    /\ rooms[1].participants[Len(rooms[1].participants)] = out[Len(out)].by
    /\ rooms[1].id = out[Len(out)].room
    /\ Len(rooms[2].participants) < ROOM_SIZE


\* C23: no room has more than ROOM_SIZE participants.
CapacityBound == \A i \in DOMAIN rooms : Len(rooms[i].participants) <= ROOM_SIZE

\* C23 witness: the first room is full and the connection that has just
\* joined was placed in another room.
CapacityBoundWitness ==
    /\ Len(rooms) >= 2
    /\ Len(rooms[1].participants) = ROOM_SIZE
    /\ out # <<>>
    /\ out[Len(out)].src = "join-queue"
    /\ out[Len(out)].by \notin Range(rooms[1].participants)
    /\ out[Len(out)].room # rooms[1].id


\* the participants of r whose ready state is true
ReadyParticipants(r) ==
    {p \in Range(r.participants) : p \in DOMAIN r.readyStates /\ r.readyStates[p]}

\* C24: after a join-queue the joiner is the last participant of its room,
\* its ready state is false, and the room-update of the join reaches every
\* participant, with participants the number of participants and readyCount
\* the number of participants whose ready state is true.
JoinEffects ==
    (out # <<>> /\ out[Len(out)].src = "join-queue")
    => LET e == out[Len(out)]
           r == rooms[RoomIdx(rooms, e.room)]
       IN  /\ e.ev = "room-update"
           /\ HasRoom(rooms, e.room)
           /\ currentRoomID[e.by] = e.room
           /\ r.participants # <<>>
           /\ r.participants[Len(r.participants)] = e.by
           /\ e.by \in DOMAIN r.readyStates
           /\ ~r.readyStates[e.by]
           /\ Range(r.participants) \subseteq e.to
           /\ e.participants = Len(r.participants)
           /\ e.readyCount = Cardinality(ReadyParticipants(r))


\* C25: every start-session carries the identifier of the room that starts,
\* which is the room of the connection whose toggle started it, peers equal
\* to that room's participant list, duration 900000, and reaches every
\* participant of the room.
StartSessionPayload ==
    \A e \in Events :
        e.ev = "start-session"
        => /\ e.src = "toggle-ready"
           /\ e.roomID = e.room
           /\ e.roomID = currentRoomID[e.by]
           /\ HasRoom(rooms, e.roomID)
           /\ e.peers = rooms[RoomIdx(rooms, e.roomID)].participants
           /\ Len(e.peers) = ROOM_SIZE
           /\ e.duration = 900000
           /\ Range(e.peers) \subseteq e.to

\* C25 witness: the participant that joined first has made the room start by
\* its toggle, and start-session has gone to both participants.
StartSessionPayloadWitness ==
    \E e \in Events :
        /\ e.ev = "start-session"
        /\ Len(e.peers) = ROOM_SIZE
        /\ e.peers[1] = e.by
        /\ e.peers[1] # e.peers[2]
        /\ Range(e.peers) \subseteq e.to


\* -------------------------------------------------------------------- phases
\* session-ending has been emitted to room id: a dissolution callback armed
\* for it is pending, nobody of its audience has left the room, and the
\* session-ending callback armed with it has run
EndingEmitted(id) ==
    \E j \in DOMAIN timers :
        /\ timers[j].kind = "session-dissolved"
        /\ timers[j].room = id
        /\ ~timers[j].left
        /\ \A k \in DOMAIN timers :
              ~( /\ timers[k].kind = "session-ending"
                 /\ timers[k].owner = timers[j].owner
                 /\ timers[k].t0 = timers[j].t0
                 /\ timers[k].room = id )

\* C26: no start-session and no further session-ending is emitted to a room
\* to which session-ending has been emitted.
PhaseOrder ==
    [][\A e \in Range(out') :
        (e.ev \in {"start-session", "session-ending"} /\ e.to # {})
        => ~EndingEmitted(e.room)
    ]_vars


\* C27: a removal by quorum of a participant does to the room table what the
\* target's own departure would do, and tells the remaining participants the
\* same: the room is deleted when nobody remains; otherwise they receive
\* room-update, with the counts after the removal, and participant-removed.
KickAsDeparture ==
    [][\A s \in Sockets, targetId \in Sockets :
        ( /\ FlagParticipant(s, targetId)
          /\ currentRoomID[s] # Null
          /\ HasRoom(rooms, currentRoomID[s])
          /\ targetId \in Range(rooms[RoomIdx(rooms, currentRoomID[s])].participants)
          /\ Kicked(out', targetId) )
        => LET id == currentRoomID[s]
               rest == Without(rooms[RoomIdx(rooms, id)].participants, targetId)
           IN  IF rest = <<>>
               THEN ~HasRoom(rooms', id)
               ELSE /\ HasRoom(rooms', id)
                    /\ rooms'[RoomIdx(rooms', id)].participants = rest
                    /\ \E e \in Range(out') :
                          /\ e.ev = "room-update"
                          /\ e.room = id
                          /\ e.participants = Len(rest)
                          /\ Range(rest) \subseteq e.to
                    /\ \E e \in Range(out') :
                          /\ e.ev = "participant-removed"
                          /\ e.room = id
                          /\ e.peerId = targetId
                          /\ e.peers = rest
                          /\ Range(rest) \subseteq e.to
    ]_vars


\* C28: when a participant leaves its room by leave-room, disconnect or a
\* re-issued join-queue and the room stays in the table, the room's flags
\* have no entry for that connection afterwards.
FlagsClearedOnLeave ==
    [][\A s \in Sockets :
        ( /\ LeaveRoom(s) \/ Disconnect(s) \/ JoinQueue(s)
          /\ Places(s) # {}
          /\ HasRoom(rooms, currentRoomID[s])
          /\ HasRoom(rooms', currentRoomID[s]) )
        => s \notin DOMAIN rooms'[RoomIdx(rooms', currentRoomID[s])].flags
    ]_vars


\* C29: a room that has not emitted start-session has no flags.
FlagsOnlyWhenStarted ==
    \A i \in DOMAIN rooms : rooms[i].starts = 0 => DOMAIN rooms[i].flags = {}


\* C30: when participant targetId has just been removed by quorum, a
\* further flag-participant(targetId) from the accuser whose flag completed
\* the quorum changes nothing in the room table and emits nothing.
FlagAfterKick ==
    [][\A s \in Sockets, targetId \in Sockets :
        ( /\ Kicked(out, targetId)
          /\ out[1].ev = "session-dissolved"
          /\ targetId \in Range(out[1].peers)
          /\ out[Len(out)].by = s
          /\ FlagParticipant(s, targetId) )
        => (rooms' = rooms /\ out' = <<>>)
    ]_vars


\* C31: when a target is removed by quorum, every accuser counted for it, the
\* flagging connection included, is a participant of the room and is not the
\* target.
QuorumOfPeers ==
    [][\A s \in Sockets, targetId \in Sockets \cup {Unknown} :
        ( /\ FlagParticipant(s, targetId)
          /\ currentRoomID[s] # Null
          /\ HasRoom(rooms, currentRoomID[s])
          /\ Kicked(out', targetId) )
        => LET r == rooms[RoomIdx(rooms, currentRoomID[s])]
           IN  Accusers(r, targetId) \cup {s} \subseteq Range(r.participants) \ {targetId}
    ]_vars


\* ----------------------------------------------------------------- isolation
\* the room named id is in the table after the step as it was before
Untouched(id) ==
    /\ HasRoom(rooms', id)
    /\ rooms'[RoomIdx(rooms', id)].participants = rooms[RoomIdx(rooms, id)].participants
    /\ rooms'[RoomIdx(rooms', id)].readyStates = rooms[RoomIdx(rooms, id)].readyStates
    /\ rooms'[RoomIdx(rooms', id)].flags = rooms[RoomIdx(rooms, id)].flags

\* C32: a toggle-ready, flag-participant, leave-room or disconnect of a
\* connection leaves every room but the connection's current room as it was
\* and adds no room; a join-queue leaves every room but the connection's
\* previous room and the room it is placed in as it was, and adds no other
\* room.
RoomIsolation ==
    [][\A s \in Sockets :
        /\ ( \/ \E isReady \in BOOLEAN : ToggleReady(s, isReady)
             \/ \E targetId \in Sockets \cup {Unknown} : FlagParticipant(s, targetId)
             \/ LeaveRoom(s)
             \/ Disconnect(s) )
           => /\ \A id \in RoomIds(rooms) \ {currentRoomID[s]} : Untouched(id)
              /\ RoomIds(rooms') \subseteq RoomIds(rooms)
        /\ JoinQueue(s)
           => /\ \A id \in RoomIds(rooms) \ {currentRoomID[s], currentRoomID'[s]} :
                    Untouched(id)
              /\ RoomIds(rooms') \subseteq RoomIds(rooms) \cup {currentRoomID'[s]}
    ]_vars

\* C32 witness: two rooms exist and a participant of one of them has just
\* toggled its ready state; the other room has no ready state for it.
RoomIsolationWitness ==
    /\ Len(rooms) >= 2
    /\ out # <<>>
    /\ out[1].src = "toggle-ready"
    /\ \E i \in DOMAIN rooms :
          /\ rooms[i].id = out[1].room
          /\ out[1].by \in Range(rooms[i].participants)
          /\ rooms[i].readyStates[out[1].by]
    /\ \E i \in DOMAIN rooms :
          /\ rooms[i].id # out[1].room
          /\ rooms[i].participants # <<>>
          /\ out[1].by \notin DOMAIN rooms[i].readyStates


\* C33: handling a signal leaves the room table as it was, does not send the
\* signal back to its sender (unless the sender named itself as recipient),
\* and delivers a payload addressed to a name that is no connected connection
\* to nobody.
RelaySilent ==
    [][\A e \in Range(out') :
        e.ev = "signal"
        => /\ rooms' = rooms
           /\ e.by \in e.to => (e.addr = "socket" /\ e.room = e.by)
           /\ (e.addr = "socket" /\ (e.room \notin Sockets \/ conn[e.room] # "connected"))
                 => e.to = {}
    ]_vars


\* ------------------------------------------------------------ kick effects
\* the room table entry of the room s refers to
RoomOf(s) == rooms[RoomIdx(rooms, currentRoomID[s])]

\* C35: a flag-participant makes the server send session-dissolved or
\* participant-removed only when the flagged identifier is a participant of
\* the flagging connection's room at that moment.
OutOfBandScope ==
    [][\A s \in Sockets, targetId \in Sockets \cup {Unknown} :
        ( /\ FlagParticipant(s, targetId)
          /\ currentRoomID[s] # Null
          /\ HasRoom(rooms, currentRoomID[s])
          /\ \E e \in Range(out') : e.ev \in {"session-dissolved", "participant-removed"} )
        => targetId \in Range(RoomOf(s).participants)
    ]_vars


\* connection s has just been removed from its room by quorum
JustKicked(s) ==
    /\ out # <<>>
    /\ out[1].ev = "session-dissolved"
    /\ out[1].src = "flag-participant"
    /\ out[1].room = s
    /\ s \in Range(out[1].peers)

\* C36: the first event of a connection that has just been removed from its
\* room by quorum changes nothing in the room table and emits nothing when it
\* is toggle-ready or flag-participant, and emits no participant-removed when
\* it is leave-room or disconnect.
KickedLosesInfluence ==
    [][\A s \in Sockets :
        JustKicked(s)
        => /\ ( \/ \E isReady \in BOOLEAN : ToggleReady(s, isReady)
                \/ \E targetId \in Sockets \cup {Unknown} : FlagParticipant(s, targetId) )
              => (rooms' = rooms /\ out' = <<>>)
           /\ (LeaveRoom(s) \/ Disconnect(s))
              => \A e \in Range(out') : e.ev # "participant-removed"
    ]_vars


\* ------------------------------------------------------------- broadcasts
Broadcasts ==
    {"room-update", "start-session", "session-ending", "session-dissolved",
     "participant-removed"}

\* the participants of the room named id when a handler emits: a dissolution
\* emits before it deletes the room, every other handler after its changes
ParticipantsAt(e) ==
    IF e.ev = "session-dissolved"
    THEN IF HasRoom(rooms, e.room)
         THEN Range(rooms[RoomIdx(rooms, e.room)].participants) ELSE {}
    ELSE IF HasRoom(rooms', e.room)
         THEN Range(rooms'[RoomIdx(rooms', e.room)].participants) ELSE {}

\* C37: every broadcast addressed to a room is delivered to exactly the
\* participants the room has when it is emitted.
AudienceIsMembership ==
    [][\A e \in Range(out') :
        (e.addr = "room" /\ e.ev \in Broadcasts) => e.to = ParticipantsAt(e)
    ]_vars


\* C38: every room-update carries 0 <= readyCount <= participants <= ROOM_SIZE
\* and participants >= 1.
SnapshotSanity ==
    \A e \in Events :
        e.ev = "room-update"
        => /\ 0 <= e.readyCount
           /\ e.readyCount <= e.participants
           /\ e.participants <= ROOM_SIZE
           /\ e.participants >= 1


\* C39: join-queue never places a connection into a room that has emitted
\* start-session.
OnlyWaitingRooms ==
    [][\A s \in Sockets :
        (JoinQueue(s) /\ currentRoomID'[s] # Null /\ HasRoom(rooms', currentRoomID'[s]))
        => rooms'[RoomIdx(rooms', currentRoomID'[s])].starts = 0
    ]_vars


\* ------------------------------------------------------------ client claims
\* C34: whenever a tab in the campfire view sends flag-participant for a peer
\* that is a participant of the tab's room, the server records the tab's
\* connection as an accuser of that peer, or removes that peer.
ClientFlagProtocol ==
    [][\A s \in Sockets, peerId \in Sockets :
        ( /\ toggleFlag(s, peerId)
          /\ events' = events + 1
          /\ currentRoomID[s] # Null
          /\ HasRoom(rooms, currentRoomID[s])
          /\ peerId \in Range(RoomOf(s).participants) )
        => \/ Kicked(out', peerId)
           \/ /\ HasRoom(rooms', currentRoomID[s])
              /\ s \in Accusers(rooms'[RoomIdx(rooms', currentRoomID[s])], peerId)
    ]_vars


\* C40: a connected tab that shows the post-session view or the lobby is a
\* participant of no room.
LeavePropagated ==
    \A s \in Sockets :
        (conn[s] = "connected" /\ client[s].view \in {"post-session", "lobby"})
        => RoomsOf(rooms, s) = {}

====
